---- MODULE Spec2Model ----
(***************************************************************************)
(* Model of the QMC5883L magnetometer driver (package qmc5883l) together   *)
(* with the i2c bus it talks to.  Every exported operation of the driver   *)
(* is one action; the answers of the bus (value and success of each        *)
(* transaction) are the inputs of the actions.                             *)
(***************************************************************************)
EXTENDS Integers, Sequences, FiniteSets, TLC

VARIABLES
    phase,            \* "start" | "ready" | "closed" | "exited" | "panic"
    i2cBus,           \* QMC5883L.i2cBus
    address,          \* QMC5883L.address
    outputDataRate,   \* QMC5883L.outputDataRate
    outputRange,      \* QMC5883L.outputRange
    oversamplingRate, \* QMC5883L.oversamplingRate
    lastOp,           \* the operation that ran last
    busLog,           \* the bus transactions of the last operation, in order
    ret               \* what the last operation returned

vars == <<phase, i2cBus, address, outputDataRate, outputRange,
          oversamplingRate, lastOp, busLog, ret>>

config == <<outputDataRate, outputRange, oversamplingRate>>

----------------------------------------------------------------------------
(* Register map and bit values *)

DfltBus == 1
DfltAddress == 13

RegXoutLSB == 0
RegYoutLSB == 2
RegZoutLSB == 4
RegToutLSB == 7

RegStatus1 == 6
StatDRDY == 1
StatOVL == 2
StatDOR == 4

RegControl1 == 9
ModeSTBY == 0
ModeCONT == 1
Odr10HZ == 0
Odr50HZ == 4
Odr100HZ == 8
Odr200HZ == 12
Rng2G == 0
Rng8G == 16
Osr512 == 0
Osr256 == 64
Osr128 == 128
Osr64 == 192

RegControl2 == 10
SoftRst == 128

RegRstPeriod == 11
RegChipID == 13

----------------------------------------------------------------------------
(* Bounds and input sets *)

\* largest status byte the bus answers in the driver life-cycle runs: every
\* combination of the three flag bits; SpecStatus below covers all 256 bytes
MaxStatusByte == 7

StatusBytes == 0 .. MaxStatusByte
AllStatusBytes == 0 .. 255
\* raw words the chip puts on the wire: smallest positive, sign bit, all ones
Words == {1, 32768, 65535}
OneWord == {32768}
AllWords == 0 .. 65535
BusIds == {0, 1}
Addresses == {0, 13}
Modes == {ModeSTBY, ModeCONT}
DataRates == {Odr10HZ, Odr50HZ, Odr100HZ, Odr200HZ}
Ranges == {Rng2G, Rng8G}
Oversamplings == {Osr512, Osr256, Osr128, Osr64}
ByteRegisters == {RegStatus1, RegControl1, RegChipID}
WordRegisters == {RegXoutLSB, RegYoutLSB, RegZoutLSB, RegToutLSB}

----------------------------------------------------------------------------
(* Errors *)

NIL == "nil"
BusErr == "bus error"
ErrOverflow == "Magnetic sensor overflow."
ErrOverflowHint == "Magnetic sensor overflow. Consider switching to Rng8G output range."
ErrSkipped == "data skipped for reading"

----------------------------------------------------------------------------
(* Byte and word arithmetic *)

RECURSIVE BitAnd(_, _)
BitAnd(a, b) ==
    IF a = 0 \/ b = 0 THEN 0
    ELSE (a % 2) * (b % 2) + 2 * BitAnd(a \div 2, b \div 2)

RECURSIVE BitOr(_, _)
BitOr(a, b) ==
    IF a = 0 THEN b
    ELSE IF b = 0 THEN a
    ELSE (IF a % 2 = 1 \/ b % 2 = 1 THEN 1 ELSE 0) + 2 * BitOr(a \div 2, b \div 2)

\* Go's conversion of an integer to int16: keep the low 16 bits, signed
Int16(n) == ((n + 32768) % 65536) - 32768

\* variant: subtracts 0xFFFF, the one's-complement constant
complement2OffByOne(val) ==
    IF val >= 32768 THEN Int16(val - 65535) ELSE Int16(val)

complement2(val) ==
    IF val >= 32768 THEN Int16(val - 65536) ELSE Int16(val)

----------------------------------------------------------------------------
(* The bus: one record per transaction; a failed read hands back 0 *)

Tx(kind, reg, val, ok) == [kind |-> kind, reg |-> reg, val |-> val, ok |-> ok]

Answers(vals) == [ok : {TRUE}, val : vals] \cup {[ok |-> FALSE, val |-> 0]}

ErrOf(ok) == IF ok THEN NIL ELSE BusErr

WriteRegU8(reg, value, ok) ==
    [err |-> ErrOf(ok), tx |-> Tx("w8", reg, value, ok)]

ReadRegU8(reg, ans) ==
    [val |-> IF ans.ok THEN ans.val ELSE 0, err |-> ErrOf(ans.ok),
     tx |-> Tx("r8", reg, ans.val, ans.ok)]

ReadRegU16LE(reg, ans) ==
    [val |-> IF ans.ok THEN ans.val ELSE 0, err |-> ErrOf(ans.ok),
     tx |-> Tx("r16", reg, ans.val, ans.ok)]

----------------------------------------------------------------------------
(* The driver's methods as functions of the receiver and the bus answers *)

\* variant: the mode bits are left out of the control byte
ControlByteNoMode(mode, odr, rng, osr) == BitOr(BitOr(odr, rng), osr)

ControlByte(mode, odr, rng, osr) == BitOr(BitOr(BitOr(mode, odr), rng), osr)

\* SetMode: the three fields are assigned first, then the byte is written
SetModeCall(mode, odr, rng, osr, ok) ==
    LET w == WriteRegU8(RegControl1, ControlByte(mode, odr, rng, osr), ok)
    IN  [odr |-> odr, rng |-> rng, osr |-> osr, err |-> w.err, log |-> <<w.tx>>]

ReadRegistryCall(registry, ans) ==
    LET r == ReadRegU8(registry, ans)
    IN  [val |-> r.val, err |-> r.err, log |-> <<r.tx>>]

\* variant: the raw word is handed back undecoded
ReadWordCallRaw(registry, ans) ==
    LET r == ReadRegU16LE(registry, ans)
    IN  [val |-> r.val, err |-> r.err, log |-> <<r.tx>>]

ReadWordCall(registry, ans) ==
    LET r == ReadRegU16LE(registry, ans)
    IN  [val |-> complement2(r.val), err |-> r.err, log |-> <<r.tx>>]

\* the zero values of the locals x, y, z of GetMagnetRaw
ZeroXYZ == <<0, 0, 0>>

Result(xyz, err, log) == [vals |-> xyz, err |-> err, log |-> log]

OverflowBranch(rng, xyz, log) ==
    Result(xyz, IF rng = Rng2G THEN ErrOverflowHint ELSE ErrOverflow, log)

\* variant: the three reads are not aborted on a failure, the last error wins
ReadyBranchNoAbort(xyz, log, s) ==
    LET rx == ReadWordCall(RegXoutLSB, s[2])
        ry == ReadWordCall(RegYoutLSB, s[3])
        rz == ReadWordCall(RegZoutLSB, s[4])
    IN  Result(<<rx.val, ry.val, rz.val>>, rz.err,
               log \o rx.log \o ry.log \o rz.log)

ReadyBranch(xyz, log, s) ==
    LET rx == ReadWordCall(RegXoutLSB, s[2])
        ry == ReadWordCall(RegYoutLSB, s[3])
        rz == ReadWordCall(RegZoutLSB, s[4])
        x  == rx.val
        y  == ry.val
        z  == rz.val
    IN  IF rx.err # NIL
        THEN Result(<<x, xyz[2], xyz[3]>>, rx.err, log \o rx.log)
        ELSE IF ry.err # NIL
        THEN Result(<<x, y, xyz[3]>>, ry.err, log \o rx.log \o ry.log)
        ELSE Result(<<x, y, z>>, rz.err, log \o rx.log \o ry.log \o rz.log)

\* variant: the temperature register is not read
SkippedBranchNoRead(xyz, log, s) == Result(xyz, ErrSkipped, log)

SkippedBranch(xyz, log, s) ==
    LET rt == ReadWordCall(RegToutLSB, s[2])
    IN  Result(xyz, IF rt.err = NIL THEN ErrSkipped ELSE rt.err, log \o rt.log)

\* variant: data-ready is tested before overflow
StatusBranchReadyFirst(status) ==
    IF BitAnd(status, StatDRDY) = StatDRDY THEN "ready"
    ELSE IF BitAnd(status, StatOVL) = StatOVL THEN "overflow"
    ELSE IF BitAnd(status, StatDOR) = StatDOR THEN "skipped"
    ELSE "none"

\* variant: data-skipped is tested before data-ready
StatusBranchSkippedFirst(status) ==
    IF BitAnd(status, StatOVL) = StatOVL THEN "overflow"
    ELSE IF BitAnd(status, StatDOR) = StatDOR THEN "skipped"
    ELSE IF BitAnd(status, StatDRDY) = StatDRDY THEN "ready"
    ELSE "none"

\* the three status tests of GetMagnetRaw, in the order they are made
StatusBranch(status) ==
    IF BitAnd(status, StatOVL) = StatOVL THEN "overflow"
    ELSE IF BitAnd(status, StatDRDY) = StatDRDY THEN "ready"
    ELSE IF BitAnd(status, StatDOR) = StatDOR THEN "skipped"
    ELSE "none"
\* s is the script of bus answers: s[i] answers the i-th transaction
GetMagnetRawCall(rng, s) ==
    LET st     == ReadRegistryCall(RegStatus1, s[1])
        branch == StatusBranch(st.val)
        xyz    == ZeroXYZ
    IN  IF st.err # NIL THEN Result(xyz, st.err, st.log)
        ELSE IF branch = "overflow" THEN OverflowBranch(rng, xyz, st.log)
        ELSE IF branch = "ready" THEN ReadyBranch(xyz, st.log, s)
        ELSE IF branch = "skipped" THEN SkippedBranch(xyz, st.log, s)
        ELSE Result(xyz, NIL, st.log)

\* every run of bus answers a call can consume: a status answer followed by
\* word answers, cut after the last transaction the call performs
Scripts(S, W) ==
    LET full == {<<a, b, c, d>> : a \in Answers(S), b \in Answers(W),
                                  c \in Answers(W), d \in Answers(W)}
    IN  {SubSeq(s, 1, Len(GetMagnetRawCall(Rng2G, s).log)) : s \in full}

DriverScripts == Scripts(StatusBytes, Words)
StatusScripts == Scripts(AllStatusBytes, OneWord)

----------------------------------------------------------------------------
(* Actions *)

Init ==
    /\ phase = "start"
    /\ i2cBus = 0
    /\ address = 0
    /\ outputDataRate = 0
    /\ outputRange = 0
    /\ oversamplingRate = 0
    /\ lastOp = "none"
    /\ busLog = <<>>
    /\ ret = [vals |-> <<>>, err |-> NIL]

\* log.Fatal: the process is gone
Fatal(log) ==
    /\ phase' = "exited"
    /\ busLog' = log
    /\ ret' = [vals |-> <<>>, err |-> BusErr]

New ==
    /\ phase = "start"
    /\ \E bus \in BusIds, addr \in Addresses, openOk, ok1, ok2, ok3 \in BOOLEAN :
        LET b  == IF bus = 0 THEN DfltBus ELSE bus
            a  == IF addr = 0 THEN DfltAddress ELSE addr
            w1 == WriteRegU8(RegRstPeriod, 1, ok1)
            w2 == WriteRegU8(RegControl2, SoftRst, ok2)
            sm == SetModeCall(ModeCONT, Odr10HZ, Rng2G, Osr512, ok3)
        IN  /\ lastOp' = "New"
            /\ IF ~openOk
               THEN /\ Fatal(<<>>)
                    /\ UNCHANGED <<i2cBus, address, outputDataRate, outputRange,
                                   oversamplingRate>>
               ELSE /\ i2cBus' = b
                    /\ address' = a
                    /\ IF w1.err # NIL
                       THEN /\ Fatal(<<w1.tx>>)
                            /\ outputDataRate' = Odr10HZ
                            /\ outputRange' = Rng2G
                            /\ oversamplingRate' = Osr512
                       ELSE IF w2.err # NIL
                       THEN /\ Fatal(<<w1.tx, w2.tx>>)
                            /\ outputDataRate' = Odr10HZ
                            /\ outputRange' = Rng2G
                            /\ oversamplingRate' = Osr512
                       ELSE /\ phase' = "ready"
                            /\ outputDataRate' = sm.odr
                            /\ outputRange' = sm.rng
                            /\ oversamplingRate' = sm.osr
                            /\ busLog' = <<w1.tx, w2.tx>> \o sm.log
                            \* the error of SetMode is dropped, &q is returned
                            /\ ret' = [vals |-> <<>>, err |-> NIL]

SetMode ==
    /\ phase = "ready"
    /\ \E mode \in Modes, odr \in DataRates, rng \in Ranges,
          osr \in Oversamplings, ok \in BOOLEAN :
        LET sm == SetModeCall(mode, odr, rng, osr, ok)
        IN  /\ outputDataRate' = sm.odr
            /\ outputRange' = sm.rng
            /\ oversamplingRate' = sm.osr
            /\ busLog' = sm.log
            /\ ret' = [vals |-> <<>>, err |-> sm.err]
    /\ lastOp' = "SetMode"
    /\ UNCHANGED <<phase, i2cBus, address>>

ReadRegistry ==
    /\ phase = "ready"
    /\ \E registry \in ByteRegisters, ans \in Answers(StatusBytes) :
        LET r == ReadRegistryCall(registry, ans)
        IN  /\ busLog' = r.log
            /\ ret' = [vals |-> <<r.val>>, err |-> r.err]
    /\ lastOp' = "ReadRegistry"
    /\ UNCHANGED <<phase, i2cBus, address, outputDataRate, outputRange,
                   oversamplingRate>>

ReadWord ==
    /\ phase = "ready"
    /\ \E registry \in WordRegisters, ans \in Answers(Words) :
        LET r == ReadWordCall(registry, ans)
        IN  /\ busLog' = r.log
            /\ ret' = [vals |-> <<r.val>>, err |-> r.err]
    /\ lastOp' = "ReadWord"
    /\ UNCHANGED <<phase, i2cBus, address, outputDataRate, outputRange,
                   oversamplingRate>>

\* variant: an overflow under the 2 Gauss range switches the stored range
GetMagnetRawOnAutoRange(scripts) ==
    /\ phase = "ready"
    /\ \E s \in scripts :
        LET r == GetMagnetRawCall(outputRange, s)
        IN  /\ busLog' = r.log
            /\ ret' = [vals |-> r.vals, err |-> r.err]
            /\ outputRange' = IF r.err = ErrOverflowHint THEN Rng8G ELSE outputRange
    /\ lastOp' = "GetMagnetRaw"
    /\ UNCHANGED <<phase, i2cBus, address, outputDataRate, oversamplingRate>>

GetMagnetRawOn(scripts) ==
    /\ phase = "ready"
    /\ \E s \in scripts :
        LET r == GetMagnetRawCall(outputRange, s)
        IN  /\ busLog' = r.log
            /\ ret' = [vals |-> r.vals, err |-> r.err]
    /\ lastOp' = "GetMagnetRaw"
    /\ UNCHANGED <<phase, i2cBus, address, outputDataRate, outputRange,
                   oversamplingRate>>

GetMagnetRaw == GetMagnetRawOn(DriverScripts)

Close ==
    /\ phase = "ready"
    /\ \E ok \in BOOLEAN :
        ret' = [vals |-> <<>>, err |-> ErrOf(ok)]
    /\ phase' = "closed"
    /\ lastOp' = "Close"
    /\ busLog' = <<>>
    /\ UNCHANGED <<i2cBus, address, outputDataRate, outputRange, oversamplingRate>>

\* q.bus is nil after Close: any further method call dereferences it
UseAfterClose ==
    /\ phase = "closed"
    /\ phase' = "panic"
    /\ lastOp' = "panic"
    /\ busLog' = <<>>
    /\ ret' = [vals |-> <<>>, err |-> NIL]
    /\ UNCHANGED <<i2cBus, address, outputDataRate, outputRange, oversamplingRate>>

Next ==
    \/ New
    \/ SetMode
    \/ ReadRegistry
    \/ ReadWord
    \/ GetMagnetRaw
    \/ Close
    \/ UseAfterClose

Spec == Init /\ [][Next]_vars

----------------------------------------------------------------------------
(* Reading the status register with every byte value, default configuration *)

GetMagnetRawAnyStatus == GetMagnetRawOn(StatusScripts)

NextStatus ==
    \/ New
    \/ GetMagnetRawAnyStatus

SpecStatus == Init /\ [][NextStatus]_vars

----------------------------------------------------------------------------
(* complement2 on every 16-bit word *)

InitDecode ==
    /\ phase = "start"
    /\ i2cBus = 0
    /\ address = 0
    /\ outputDataRate = 0
    /\ outputRange = 0
    /\ oversamplingRate = 0
    /\ lastOp = "arg"
    /\ busLog = <<>>
    /\ \E v \in AllWords : ret = [vals |-> <<v>>, err |-> NIL]

Decode ==
    /\ lastOp = "arg"
    /\ lastOp' = "complement2"
    /\ ret' = [vals |-> <<ret.vals[1], complement2(ret.vals[1])>>, err |-> NIL]
    /\ UNCHANGED <<phase, i2cBus, address, outputDataRate, outputRange,
                   oversamplingRate, busLog>>

NextDecode == Decode

SpecDecode == InitDecode /\ [][NextDecode]_vars

----------------------------------------------------------------------------
(* Vocabulary of the properties *)

Bit(b, k) == (b \div (2 ^ k)) % 2 = 1

Signed16(v) == IF v < 32768 THEN v ELSE v - 65536

StatusRead == lastOp = "GetMagnetRaw" /\ busLog[1].ok

StatusByte == busLog[1].val

OnlySkipped == StatusRead /\ Bit(StatusByte, 2) /\ ~Bit(StatusByte, 1) /\ ~Bit(StatusByte, 0)

ReadyNoOverflow == StatusRead /\ Bit(StatusByte, 0) /\ ~Bit(StatusByte, 1)

AxisRegisters == {RegXoutLSB, RegYoutLSB, RegZoutLSB}

AllOk == \A i \in DOMAIN busLog : busLog[i].ok

IsWordRead(i, reg) ==
    i \in DOMAIN busLog /\ busLog[i].kind = "r16" /\ busLog[i].reg = reg

----------------------------------------------------------------------------
(* C1: when the control-register-1 write of SetMode fails, SetMode returns *)
(* the bus error and the stored configuration is what it was before.       *)
C1_ConfigKeptOnFailedWrite ==
    [][(lastOp' = "SetMode" /\ ~busLog'[1].ok)
         => (ret'.err = BusErr /\ config' = config)]_vars

(* C2: a failed register write during construction ends in a failure that  *)
(* is returned to the caller with the bus error: no instance is handed     *)
(* back and the process is not terminated.                                 *)
C2_ConstructionFailureReturned ==
    (lastOp = "New" /\ ~AllOk)
        => (phase # "exited" /\ phase # "ready" /\ ret.err = BusErr)

C4_OverflowReadsNoAxis ==
    (StatusRead /\ Bit(StatusByte, 1))
        => /\ ret.err \in {ErrOverflow, ErrOverflowHint}
           /\ Len(busLog) = 1
           /\ busLog[1].kind = "r8" /\ busLog[1].reg = RegStatus1
           /\ \A i \in DOMAIN busLog : busLog[i].reg \notin AxisRegisters

C4_Witness ==
    StatusRead /\ Bit(StatusByte, 1) /\ Bit(StatusByte, 0) /\ ret.err = ErrOverflow

(* C5: in the data-ready branch a failed axis read ends the call: the bus  *)
(* error is returned, no later axis register is read, and every axis not   *)
(* read successfully is 0 in the returned triple.                          *)
C5_AxisFailureAborts ==
    \A i \in 2 .. 4 :
        (ReadyNoOverflow /\ i \in DOMAIN busLog /\ ~busLog[i].ok)
            => /\ ret.err = BusErr
               /\ Len(busLog) = i
               /\ \A j \in (i - 1) .. 3 : ret.vals[j] = 0
               /\ \A j \in 1 .. (i - 2) : ret.vals[j] = Signed16(busLog[j + 1].val)

C5_Witness ==
    /\ ReadyNoOverflow /\ Len(busLog) = 3 /\ ~busLog[3].ok
    /\ ret.vals = <<-1, 0, 0>> /\ ret.err = BusErr

(* C6: for every status byte 0..255 exactly one branch is taken by strict  *)
(* priority: overflow if bit 1, else ready if bit 0, else skipped if       *)
(* bit 2, else none, which returns (0,0,0) with no error and makes no      *)
(* further bus transaction.                                                *)
C6_StatusPriority ==
    StatusRead =>
        IF Bit(StatusByte, 1)
        THEN ret.err \in {ErrOverflow, ErrOverflowHint} /\ Len(busLog) = 1
        ELSE IF Bit(StatusByte, 0)
        THEN /\ IsWordRead(2, RegXoutLSB)
             /\ ret.err \in {NIL, BusErr}
        ELSE IF Bit(StatusByte, 2)
        THEN /\ IsWordRead(2, RegToutLSB) /\ Len(busLog) = 2
             /\ ret.err \in {ErrSkipped, BusErr}
        ELSE ret = [vals |-> <<0, 0, 0>>, err |-> NIL] /\ Len(busLog) = 1

C6_Witness ==
    /\ StatusRead /\ StatusByte = 245
    /\ Len(busLog) = 4 /\ ret.err = NIL

(* C7: complement2(v) is v below 0x8000 and v - 65536 from 0x8000 on, lies *)
(* in -32768..32767 and is congruent to v modulo 2^16.                     *)
C7_Complement2 ==
    lastOp = "complement2" =>
        LET v == ret.vals[1]
            d == ret.vals[2]
        IN  /\ (v < 32768 => d = v)
            /\ (v >= 32768 => d = v - 65536)
            /\ d \in -32768 .. 32767
            /\ d % 65536 = v

C7_Witness == lastOp = "complement2" /\ ret.vals = <<32768, -32768>>

(* C8: a construction whose writes all succeed writes 0x01 to 0x0b, 0x80   *)
(* to 0x0a and 0x01 to 0x09, in this order and nothing else, and stores    *)
(* 10Hz, 2 Gauss, oversampling 512.                                        *)
C8_ConstructionWrites ==
    (lastOp = "New" /\ phase = "ready" /\ AllOk)
        => /\ busLog = << Tx("w8", 11, 1, TRUE), Tx("w8", 10, 128, TRUE),
                          Tx("w8", 9, 1, TRUE) >>
           /\ config = <<0, 0, 0>>

C8_Witness == lastOp = "New" /\ phase = "ready" /\ AllOk /\ Len(busLog) = 3

(* C9: with data-ready set, overflow clear and every read succeeding, the  *)
(* status read is followed by exactly the word reads of 0x00, 0x02, 0x04,  *)
(* in this order, and the call returns without error the decoded words,    *)
(* each axis from its own register.                                        *)
C9_ReadyReadsXYZ ==
    (ReadyNoOverflow /\ AllOk)
        => /\ Len(busLog) = 4
           /\ IsWordRead(2, 0) /\ IsWordRead(3, 2) /\ IsWordRead(4, 4)
           /\ ret.err = NIL
           /\ ret.vals = << Signed16(busLog[2].val), Signed16(busLog[3].val),
                            Signed16(busLog[4].val) >>

C9_Witness ==
    /\ ReadyNoOverflow /\ AllOk
    /\ busLog[2].val = 1 /\ busLog[3].val = 65535 /\ busLog[4].val = 32768
    /\ ret = [vals |-> <<1, -1, -32768>>, err |-> NIL]

(* C10: GetMagnetRaw, ReadRegistry and ReadWord leave the stored           *)
(* configuration unchanged and write nothing to the bus, and a             *)
(* GetMagnetRaw that sees the same bus answers under the same range as     *)
(* the call before it returns the same result.                             *)
C10_ReadsKeepConfig ==
    [][/\ (lastOp' \in {"GetMagnetRaw", "ReadRegistry", "ReadWord"})
           => /\ config' = config
              /\ \A i \in DOMAIN busLog' : busLog'[i].kind # "w8"
       /\ (lastOp = "GetMagnetRaw" /\ lastOp' = "GetMagnetRaw"
             /\ busLog' = busLog /\ outputRange' = outputRange)
           => ret' = ret]_vars

C10_Witness ==
    /\ lastOp = "GetMagnetRaw" /\ ret.err = ErrOverflow
    /\ config = <<Odr200HZ, Rng8G, Osr64>>

====
